---- MODULE Spec2Model ----
(***************************************************************************)
(* A model of the whisper round-robin file engine: the Archive ring        *)
(* (src/whisper/file/archive.rs) and the cascading write of WhisperFile    *)
(* (src/whisper/file/mod.rs).                                              *)
(*                                                                         *)
(* An archive region is modelled slot by slot: slot i stands for the bytes *)
(* [i*POINT_SIZE, (i+1)*POINT_SIZE) of the mapped view.  The timestamp of  *)
(* a slot is kept as its four big-endian bytes, the value as an exact      *)
(* rational <<numerator, denominator>> (<<0, 0>> stands for NaN).          *)
(***************************************************************************)
EXTENDS Integers, Sequences, FiniteSets, TLC

VARIABLES archives, header, call, ncalls

vars == <<archives, header, call, ncalls>>

---------------------------------------------------------------------------
(* Bounds of the model *)

\* timestamps range over 0..NearTs, next to the epoch (0 marks an empty
\* slot), and over LaterTs..(LaterTs + MaxTs)
NearTs == 1
LaterTs == 24
MaxTs == 3
\* number of write_at calls in one behaviour of Spec
MaxCalls == 2
\* slot count of the archives SpecArchive draws
MaxPoints == 3

---------------------------------------------------------------------------
(* Integer helpers: Rust's / and % truncate toward zero *)

Min(a, b) == IF a < b THEN a ELSE b

Abs(a) == IF a < 0 THEN -a ELSE a

\* i64 `/`
TruncDiv(a, b) == IF a >= 0 THEN a \div b ELSE -((-a) \div b)

\* i64 `%`
TruncRem(a, b) == a - b * TruncDiv(a, b)

RECURSIVE Gcd(_, _)
Gcd(a, b) == IF b = 0 THEN a ELSE Gcd(b, a % b)

---------------------------------------------------------------------------
(* Point codec (point.rs is not part of the sources at hand; modelled from *)
(* the format description: [ts(4) | value(8)], big-endian)                 *)

POINT_SIZE == 12

\* BigEndian::write_u32
WriteU32(n) == << (n \div 16777216) % 256, (n \div 65536) % 256,
                  (n \div 256) % 256, n % 256 >>

\* BigEndian::read_u32
ReadU32(b) == ((b[1] * 256 + b[2]) * 256 + b[3]) * 256 + b[4]

\* Point(timestamp, value)
Point(t, v) == [t |-> t, v |-> v]

\* Point::default()
DefaultPoint == Point(0, <<0, 1>>)

\* Point::write_to_slice(bucket_name, slice): the encoded slot
write_to_slice(point, bn) == [tsb |-> WriteU32(bn), val |-> point.v]

\* Point::new_from_slice(slice)
new_from_slice(slot) == Point(ReadU32(slot.tsb), slot.val)

\* a zero-filled slot
ZeroSlot == [tsb |-> <<0, 0, 0, 0>>, val |-> <<0, 1>>]

---------------------------------------------------------------------------
(* Archive (archive.rs) *)

\* Archive::new over a view of points * POINT_SIZE bytes
Archive(spp, npoints, data) ==
    [seconds_per_point |-> spp, points |-> npoints, data |-> data]

points(self) == self.points

seconds_per_point(self) == self.seconds_per_point

retention(self) == self.seconds_per_point * self.points

\* mmap_view.len()
size(self) == Len(self.data) * POINT_SIZE

\* variant of bucket_name: the remainder taken by the number of points
bucket_name_points(self, timestamp) == timestamp - (timestamp % self.points)

\* variant of bucket_name: rounded to the nearest multiple, not down
bucket_name_nearest(self, timestamp) ==
    LET r == timestamp % self.seconds_per_point
    IN IF 2 * r > self.seconds_per_point
       THEN timestamp - r + self.seconds_per_point
       ELSE timestamp - r

bucket_name(self, timestamp) ==
    timestamp - (timestamp % self.seconds_per_point)

anchor_bucket_name(self) == ReadU32(self.data[1].tsb)

\* variant of py_mod: the truncated remainder as it is
py_mod_nofloor(input, base) == TruncRem(input, base)

py_mod(input, base) ==
    LET remainder == TruncRem(input, base)
    IN IF remainder < 0 THEN base + remainder ELSE remainder

\* variant of archive_index: the point distance counted from 1
archive_index_offbyone(self, bn) ==
    LET anchor == anchor_bucket_name(self)
    IN IF anchor = 0
       THEN 0
       ELSE LET time_distance == bn - anchor
                point_distance == TruncDiv(time_distance, self.seconds_per_point) + 1
            IN py_mod(point_distance, self.points)

\* variant of archive_index: an anchor of 0 is treated like any other
archive_index_noempty(self, bn) ==
    LET time_distance == bn - anchor_bucket_name(self)
        point_distance == TruncDiv(time_distance, self.seconds_per_point)
    IN py_mod(point_distance, self.points)

archive_index(self, bn) ==
    LET anchor == anchor_bucket_name(self)
    IN IF anchor = 0
       THEN 0
       ELSE LET time_distance == bn - anchor
                point_distance == TruncDiv(time_distance, self.seconds_per_point)
            IN py_mod(point_distance, self.points)

\* variant of Archive::write: the point encoded with its own timestamp
ArchiveWrite_raw(self, point) ==
    LET bn == bucket_name(self, point.t)
        ai == archive_index(self, bn)
    IN [self EXCEPT !.data[ai + 1] = write_to_slice(point, point.t)]

\* variant of Archive::write: the slot taken from the bucket name alone,
\* not relative to the anchor
ArchiveWrite_absolute(self, point) ==
    LET bn == bucket_name(self, point.t)
        ai == (bn \div self.seconds_per_point) % self.points
    IN [self EXCEPT !.data[ai + 1] = write_to_slice(point, bn)]

\* variant of Archive::write: the range written runs one slot too far
ArchiveWrite_span(self, point) ==
    LET bn == bucket_name(self, point.t)
        ai == archive_index(self, bn)
        start == ai * POINT_SIZE
        end == ai * POINT_SIZE + POINT_SIZE + POINT_SIZE
    IN [self EXCEPT !.data =
          [i \in 1..Len(self.data) |->
             IF (i - 1) * POINT_SIZE >= start /\ i * POINT_SIZE <= end
             THEN write_to_slice(point, bn)
             ELSE self.data[i]]]

\* Archive::write: the archive after the call.  The byte range
\* [start .. end) of the view is slot start / POINT_SIZE (data is 1-based).
ArchiveWrite(self, point) ==
    LET bn == bucket_name(self, point.t)
        ai == archive_index(self, bn)
        start == ai * POINT_SIZE
        end == ai * POINT_SIZE + POINT_SIZE
    IN [self EXCEPT !.data =
          [i \in 1..Len(self.data) |->
             IF (i - 1) * POINT_SIZE >= start /\ i * POINT_SIZE <= end
             THEN write_to_slice(point, bn)
             ELSE self.data[i]]]

\* &self.slice()[lo .. hi] cut by chunks(POINT_SIZE): the chunks in order,
\* each with its length in bytes and the slot it lies in
Chunks(self, lo, hi) ==
    LET n == (hi - lo + POINT_SIZE - 1) \div POINT_SIZE
    IN [c \in 1..n |->
          [len |-> Min(POINT_SIZE, hi - lo - (c - 1) * POINT_SIZE),
           slot |-> self.data[(lo \div POINT_SIZE) + c]]]

\* Archive::write_data_as_points_to_slice: decodes chunk after chunk into
\* buf and stops with InvalidData at a chunk that is not POINT_SIZE long
RECURSIVE write_data_as_points_to_slice(_, _, _)
write_data_as_points_to_slice(chunks, buf, i) ==
    IF i > Len(chunks)
    THEN [ok |-> TRUE, buf |-> buf]
    ELSE IF chunks[i].len # POINT_SIZE
         THEN [ok |-> FALSE, kind |-> "InvalidData", buf |-> buf]
         ELSE write_data_as_points_to_slice(
                 chunks, [buf EXCEPT ![i] = new_from_slice(chunks[i].slot)], i + 1)

\* variant of the size guard: <= for <
exceeds_le(self, buf) == points(self) <= Len(buf)

\* read_points: the request exceeds the archive (`self.points() < points.len()`)
exceeds(self, buf) == points(self) < Len(buf)

\* variant of the second pass: the last overflow_bytes of the region
second_pass_tail(self, overflow_bytes) ==
    Chunks(self, size(self) - overflow_bytes, size(self))

\* read_points: the second pass of a wrap-around read, &self.slice()[0 .. overflow_bytes]
second_pass(self, overflow_bytes) == Chunks(self, 0, overflow_bytes)

\* Archive::read_points(from, points): the result and the buffer afterwards
read_points(self, from, buf) ==
    IF exceeds(self, buf)
    THEN [ok |-> FALSE, kind |-> "InvalidInput",
          requested |-> Len(buf), available |-> points(self), buf |-> buf]
    ELSE
      LET start == archive_index(self, from)
          bytes_needed == Len(buf) * POINT_SIZE
          end_of_read == start * POINT_SIZE + bytes_needed
      IN IF end_of_read > size(self)
         THEN LET overflow_bytes == end_of_read - size(self)
                  first_data == Chunks(self, start * POINT_SIZE, size(self))
                  second_data == second_pass(self, overflow_bytes)
                  first_buf == SubSeq(buf, 1, Len(first_data))
                  second_buf == SubSeq(buf, Len(first_data) + 1, Len(buf))
                  r1 == write_data_as_points_to_slice(first_data, first_buf, 1)
                  r2 == write_data_as_points_to_slice(second_data, second_buf, 1)
              IN IF ~r1.ok
                 THEN [ok |-> FALSE, kind |-> r1.kind, buf |-> r1.buf \o second_buf]
                 ELSE IF ~r2.ok
                      THEN [ok |-> FALSE, kind |-> r2.kind, buf |-> r1.buf \o r2.buf]
                      ELSE [ok |-> TRUE, buf |-> r1.buf \o r2.buf]
         ELSE LET points_data == Chunks(self, start * POINT_SIZE, end_of_read)
              IN write_data_as_points_to_slice(points_data, buf, 1)

---------------------------------------------------------------------------
(* Header (header.rs is not part of the sources at hand; the aggregation   *)
(* methods are modelled from the format description)                       *)

NaN == <<0, 0>>

IsNaN(a) == a[2] = 0

RNorm(n, d) ==
    IF d = 0 THEN NaN
    ELSE LET g == Gcd(Abs(n), d) IN <<n \div g, d \div g>>

RAdd(a, b) ==
    IF IsNaN(a) \/ IsNaN(b) THEN NaN
    ELSE RNorm(a[1] * b[2] + b[1] * a[2], a[2] * b[2])

RLess(a, b) == a[1] * b[2] < b[1] * a[2]

RECURSIVE SumValues(_)
SumValues(pts) ==
    IF pts = <<>> THEN <<0, 1>>
    ELSE RAdd(SumValues(SubSeq(pts, 1, Len(pts) - 1)), pts[Len(pts)].v)

\* the extremum of the values that are not NaN; NaN when there is none
RECURSIVE Extremum(_, _)
Extremum(pts, wantMax) ==
    IF pts = <<>> THEN NaN
    ELSE LET rest == Extremum(SubSeq(pts, 1, Len(pts) - 1), wantMax)
             x == pts[Len(pts)].v
         IN IF IsNaN(x) THEN rest
            ELSE IF IsNaN(rest) THEN x
            ELSE IF wantMax THEN (IF RLess(rest, x) THEN x ELSE rest)
            ELSE (IF RLess(x, rest) THEN x ELSE rest)

AggregationTypes == {"Average", "Sum", "Last", "Max", "Min"}

\* AggregationType::aggregate(&points)
aggregate(aggregation_type, pts) ==
    CASE aggregation_type = "Average" ->
           LET s == SumValues(pts)
           IN IF IsNaN(s) THEN NaN ELSE RNorm(s[1], s[2] * Len(pts))
      [] aggregation_type = "Sum" -> SumValues(pts)
      [] aggregation_type = "Last" ->
           IF pts = <<>> THEN NaN ELSE pts[Len(pts)].v
      [] aggregation_type = "Max" -> Extremum(pts, TRUE)
      [] aggregation_type = "Min" -> Extremum(pts, FALSE)

\* Header::new(aggregation_type, max_retention, x_files_factor); the
\* x-files-factor is kept as the fraction <<numerator, denominator>>
Header(aggregation_type, xff) ==
    [aggregation_type |-> aggregation_type, x_files_factor |-> xff]

---------------------------------------------------------------------------
(* WhisperFile::_write (mod.rs): the fold over the archive indices *)

\* self.archives[index], index counted from 0 as in the source
At(archs, index) == archs[index + 1]

\* variant of the candidate window: not cut to the source's length
candidate_point_count_unclamped(dst, last_archive) ==
    seconds_per_point(dst) \div seconds_per_point(last_archive)

\* the candidate window: min(d.seconds_per_point / s.seconds_per_point, s.points)
candidate_point_count(dst, last_archive) ==
    Min(seconds_per_point(dst) \div seconds_per_point(last_archive),
        points(last_archive))

\* point.0 - (point.0 % seconds_per_point)
target_timestamp(dst, t) == t - (t % seconds_per_point(dst))

\* the enumerate / filter / map of the candidate points
RECURSIVE KeptPoints(_, _, _, _)
KeptPoints(candidate_points, timestamp, last_spp, i) ==
    IF i > Len(candidate_points) THEN <<>>
    ELSE (IF timestamp + (i - 1) * last_spp = candidate_points[i].t
          THEN <<candidate_points[i]>> ELSE <<>>)
         \o KeptPoints(candidate_points, timestamp, last_spp, i + 1)

\* variant of the admission rule: ratio > x_files_factor
Admitted_strict(kept_count, candidate_count, xff) ==
    /\ candidate_count # 0
    /\ kept_count * xff[2] > xff[1] * candidate_count

\* variant of the admission: at least one kept point is required as well
Admitted_nonempty(kept_count, candidate_count, xff) ==
    /\ candidate_count # 0
    /\ kept_count > 0
    /\ kept_count * xff[2] >= xff[1] * candidate_count

\* ratio >= x_files_factor, with ratio = kept / candidates computed in
\* floating point: 0 / 0 is NaN, and NaN >= x is false
Admitted(kept_count, candidate_count, xff) ==
    /\ candidate_count # 0
    /\ kept_count * xff[2] >= xff[1] * candidate_count

\* variant of the point handed on: the value is not replaced by the aggregate
AggregatePoint_keepvalue(point, timestamp, hdr, kept) == Point(timestamp, point.v)

\* point.0 = timestamp; point.1 = aggregate(&points): the point handed on
AggregatePoint(point, timestamp, hdr, kept) ==
    Point(timestamp, aggregate(hdr.aggregation_type, kept))

\* Initial: the archive at `index` does not cover the point's age
\* variant: an age equal to the retention counts as covered
NotCovered_gt(archive, elapsed) == elapsed < 0 \/ elapsed > retention(archive)

\* variant: the sign of the age is ignored
NotCovered_nosign(archive, elapsed) == Abs(elapsed) >= retention(archive)

\* elapsed < 0 || elapsed as usize >= self.archives[index].retention()
NotCovered(archive, elapsed) == elapsed < 0 \/ elapsed >= retention(archive)

\* WriteState::Initial at `index`
InitialStep(acc, index, elapsed) ==
    IF NotCovered(At(acc.archives, index), elapsed)
    THEN [acc EXCEPT !.log = Append(@, [index |-> index, step |-> "skip"])]
    ELSE [acc EXCEPT
            !.archives[index + 1] = ArchiveWrite(@, acc.point),
            !.state = "Aggregate",
            !.last_index = index,
            !.log = Append(@, [index |-> index, step |-> "primary"])]

\* WriteState::Aggregate(last_index) at `index`
AggregateStep(acc, index, hdr) ==
    LET dst == At(acc.archives, index)
        last_archive == At(acc.archives, acc.last_index)
        count == candidate_point_count(dst, last_archive)
        timestamp == target_timestamp(dst, acc.point.t)
        read == read_points(last_archive, timestamp, [i \in 1..count |-> DefaultPoint])
        kept == KeptPoints(read.buf, timestamp, seconds_per_point(last_archive), 1)
        entry == [index |-> index, source |-> acc.last_index, candidates |-> count,
                  timestamp |-> timestamp, kept |-> kept]
    IN IF ~read.ok
       THEN \* unwrap() of an Err
            [acc EXCEPT !.state = "Panicked",
                        !.log = Append(@, [index |-> index, step |-> "panic"])]
       ELSE IF Admitted(Len(kept), count, hdr.x_files_factor)
       THEN LET p == AggregatePoint(acc.point, timestamp, hdr, kept)
            IN [acc EXCEPT
                  !.point = p,
                  !.archives[index + 1] = ArchiveWrite(@, p),
                  !.last_index = index,
                  !.log = Append(@,
                     [entry EXCEPT !.index = index] @@ [step |-> "admit", point |-> p])]
       ELSE [acc EXCEPT !.state = "Finished",
                        !.log = Append(@, entry @@ [step |-> "reject"])]

\* variant of the closure: a rejected step does not end the cascade, the
\* next step takes the rejected archive as its source
FoldStep_continue(acc, index, hdr, elapsed) ==
    CASE acc.state = "Initial" -> InitialStep(acc, index, elapsed)
      [] acc.state = "Aggregate" ->
           LET r == AggregateStep(acc, index, hdr)
           IN IF r.state = "Finished"
              THEN [r EXCEPT !.state = "Aggregate", !.last_index = index]
              ELSE r
      [] OTHER -> acc

\* one iteration of the fold's closure
FoldStep(acc, index, hdr, elapsed) ==
    CASE acc.state = "Initial" -> InitialStep(acc, index, elapsed)
      [] acc.state = "Aggregate" -> AggregateStep(acc, index, hdr)
      [] acc.state = "Finished" ->
           [acc EXCEPT !.log = Append(@, [index |-> index, step |-> "finished"])]
      [] OTHER -> acc

\* variant of fold_indices: the archives visited coarsest first
fold_indices_descending(archs) == [n \in 1..Len(archs) |-> Len(archs) - n]

\* (0..self.archives.len()): the indices the fold visits, in order
fold_indices(archs) == [n \in 1..Len(archs) |-> n - 1]

\* the fold from its n-th iteration (counted from 0) on
RECURSIVE Fold(_, _, _, _)
Fold(acc, n, hdr, elapsed) ==
    IF n >= Len(fold_indices(acc.archives)) THEN acc
    ELSE Fold(FoldStep(acc, fold_indices(acc.archives)[n + 1], hdr, elapsed),
              n + 1, hdr, elapsed)

\* WhisperFile::_write(point, now): the archives afterwards and what each
\* iteration did
write_at(archs, hdr, point, now) ==
    Fold([state |-> "Initial", last_index |-> 0, point |-> point,
          archives |-> archs, log |-> <<>>],
         0, hdr, now - point.t)

---------------------------------------------------------------------------
(* The file engine as a state machine: a file created zero-filled by       *)
(* WhisperFile::new / new_transient, then written by write_at calls        *)

\* retention policies as <<precision, points>>, finest first
SchemaA == << <<1, 3>>, <<3, 2>>, <<6, 2>> >>
SchemaB == << <<1, 2>>, <<4, 2>> >>
SchemaC == << <<2, 2>>, <<4, 3>> >>

\* the files of the model: schema, x-files-factor, aggregation method
Configs ==
    { <<SchemaA, <<1, 2>>, "Average">>,
      <<SchemaA, <<1, 1>>, "Sum">>,
      <<SchemaA, <<0, 1>>, "Max">>,
      <<SchemaB, <<0, 1>>, "Average">>,
      <<SchemaB, <<1, 2>>, "Last">>,
      <<SchemaC, <<1, 2>>, "Min">> }

\* the archives of a freshly created file: the payload is zero-filled
ZeroArchives(schema) ==
    [k \in 1..Len(schema) |->
        Archive(schema[k][1], schema[k][2], [i \in 1..schema[k][2] |-> ZeroSlot])]

Timestamps == (0..NearTs) \cup (LaterTs..(LaterTs + MaxTs))

\* the clock values tried for a point of timestamp t: one past the clock,
\* the clock itself, and the first age each archive no longer covers
Clocks(archs, t) ==
    {t - 1, t} \cup {t + retention(archs[k]) : k \in 1..Len(archs)}

\* the n-th call of a behaviour (counted from 0) carries the value n + 1
Values(n) == { <<n + 1, 1>> }

Init ==
    /\ \E c \in Configs :
          /\ archives = ZeroArchives(c[1])
          /\ header = Header(c[3], c[2])
    /\ call = [op |-> "create"]
    /\ ncalls = 0

\* file._write(&point, now), for a behaviour of at most `limit` such calls
WriteAtWithin(limit) ==
    /\ call.op \in {"create", "write_at", "read_all"}
    /\ ncalls < limit
    /\ \E t \in Timestamps : \E v \in Values(ncalls) : \E now \in Clocks(archives, t) :
          LET r == write_at(archives, header, Point(t, v), now)
          IN /\ archives' = r.archives
             /\ call' = [op |-> "write_at", point |-> Point(t, v), now |-> now,
                         pre |-> archives, log |-> r.log, state |-> r.state]
    /\ ncalls' = ncalls + 1
    /\ UNCHANGED header

WriteAt == WriteAtWithin(MaxCalls)

\* variant of read_all_from: every archive read from bucket 0
read_all_from_epoch(archive) == 0

\* read_all: the bucket each archive is read from
read_all_from(archive) == anchor_bucket_name(archive)

\* WhisperFile::read_all: per archive a buffer of archive.points() default
\* points filled by read_points(...).unwrap()
read_all(archs) ==
    LET read(k) == read_points(archs[k], read_all_from(archs[k]),
                               [i \in 1..points(archs[k]) |-> DefaultPoint])
    IN [panicked |-> \E k \in 1..Len(archs) : ~read(k).ok,
        lists |-> [k \in 1..Len(archs) |-> read(k).buf]]

\* file.read_all(): leaves the file as it is
ReadAll ==
    /\ call.op \in {"create", "write_at"}
    /\ call' = [op |-> "read_all", pre |-> archives, result |-> read_all(archives)]
    /\ UNCHANGED <<archives, header, ncalls>>

Next == WriteAt \/ ReadAll

Spec == Init /\ [][Next]_vars

---------------------------------------------------------------------------
(* One archive over an arbitrary view (Archive::new), and one call on it *)

Resolutions == {1, 2, 3}

\* the value the slots of the drawn view hold
StoredValue == <<7, 1>>

InitArchive ==
    /\ \E spp \in Resolutions : \E n \in 1..MaxPoints :
       \E ts \in [1..n -> Timestamps] :
          archives = << Archive(spp, n,
                          [i \in 1..n |-> [tsb |-> WriteU32(ts[i]), val |-> StoredValue]]) >>
    /\ header = Header("Average", <<1, 2>>)
    /\ call = [op |-> "new"]
    /\ ncalls = 0

\* archive.archive_index(&BucketName(bn))
CallArchiveIndex ==
    /\ call.op = "new"
    /\ \E bn \in Timestamps :
          call' = [op |-> "archive_index", bn |-> bn,
                   result |-> archive_index(archives[1], bn)]
    /\ ncalls' = ncalls + 1
    /\ UNCHANGED <<archives, header>>

\* archive.read_points(BucketName(from), &mut buf[..]) with a buffer of
\* len default points
CallReadPoints ==
    /\ call.op = "new"
    /\ \E from \in Timestamps : \E len \in 0..(points(archives[1]) + 1) :
          LET buf == [i \in 1..len |-> DefaultPoint]
          IN call' = [op |-> "read_points", from |-> from, buf |-> buf,
                      pre |-> archives[1],
                      result |-> read_points(archives[1], from, buf)]
    /\ ncalls' = ncalls + 1
    /\ UNCHANGED <<archives, header>>

\* archive.write(&point)
CallArchiveWrite ==
    /\ call.op = "new"
    /\ \E t \in Timestamps : \E v \in Values(ncalls) :
          /\ archives' = << ArchiveWrite(archives[1], Point(t, v)) >>
          /\ call' = [op |-> "archive_write", point |-> Point(t, v), pre |-> archives[1]]
    /\ ncalls' = ncalls + 1
    /\ UNCHANGED header

NextArchive == CallArchiveIndex \/ CallReadPoints \/ CallArchiveWrite

SpecArchive == InitArchive /\ [][NextArchive]_vars

---------------------------------------------------------------------------
(* Claims about one archive, checked under SpecArchive *)

\* the decoded content of slot i (counted from 0) of an archive
SlotPoint(self, i) == new_from_slice(self.data[i + 1])

\* C1: for an archive whose anchor is not zero, archive_index(bn) lies in
\* [0, points), and for bn = anchor + k * seconds_per_point, k negative
\* included, it is k mod points with the non-negative remainder.
C1_FloorModAddressing ==
    (call.op = "archive_index" /\ anchor_bucket_name(archives[1]) # 0) =>
       LET a == archives[1]
           d == call.bn - anchor_bucket_name(a)
       IN /\ call.result \in 0..(a.points - 1)
          /\ \A k \in (-(LaterTs + MaxTs))..(LaterTs + MaxTs) :
                d = k * a.seconds_per_point => call.result = k % a.points

\* C1 witness: a bucket before the anchor (k = -1) lands in the last slot
C1_Witness ==
    /\ call.op = "archive_index"
    /\ archives[1].points >= 2
    /\ anchor_bucket_name(archives[1]) # 0
    /\ call.bn = anchor_bucket_name(archives[1]) - archives[1].seconds_per_point
    /\ call.result = archives[1].points - 1

\* C2: read_points(from, out) with out.len() <= points fills out[j] with the
\* decoded content of slot (archive_index(from) + j) mod points, stale or
\* not: the run up to the end of the region, then the run from slot 0.
C2_WrapRead ==
    (call.op = "read_points" /\ Len(call.buf) <= call.pre.points) =>
       /\ call.result.ok
       /\ Len(call.result.buf) = Len(call.buf)
       /\ \A j \in 0..(Len(call.buf) - 1) :
             call.result.buf[j + 1] =
                SlotPoint(call.pre,
                          (archive_index(call.pre, call.from) + j) % call.pre.points)

\* C2 witness: a read of two or more slots that starts after slot 0 and
\* runs past the end of the region
C2_Witness ==
    /\ call.op = "read_points"
    /\ call.result.ok
    /\ archive_index(call.pre, call.from) >= 1
    /\ Len(call.buf) >= 2
    /\ archive_index(call.pre, call.from) + Len(call.buf) > call.pre.points + 1

\* C3: read_points succeeds, every entry of the buffer overwritten by a
\* slot, iff out.len() <= points; otherwise it returns the error with
\* requested = out.len() and available = points, and leaves the buffer and
\* the archive as they were.
C3_RequestTooLarge ==
    call.op = "read_points" =>
       /\ call.result.ok <=> (Len(call.buf) <= call.pre.points)
       /\ call.result.ok =>
             /\ Len(call.result.buf) = Len(call.buf)
             /\ \A j \in 1..Len(call.buf) :
                   \E i \in 0..(call.pre.points - 1) :
                      call.result.buf[j] = SlotPoint(call.pre, i)
       /\ ~call.result.ok =>
             /\ call.result.kind = "InvalidInput"
             /\ call.result.requested = Len(call.buf)
             /\ call.result.available = call.pre.points
             /\ call.result.buf = call.buf
             /\ archives[1] = call.pre

\* C3 witness: a request for one slot more than the archive holds
C3_Witness ==
    /\ call.op = "read_points"
    /\ Len(call.buf) = call.pre.points + 1
    /\ ~call.result.ok

\* C4: after Archive::write(p), whatever the archive held, reading one
\* point at bucket_name(p.timestamp) yields (bucket_name(p.timestamp), p.value).
C4_WriteThenReadOne ==
    call.op = "archive_write" =>
       LET bn == bucket_name(archives[1], call.point.t)
           r == read_points(archives[1], bn, <<DefaultPoint>>)
       IN /\ r.ok
          /\ r.buf = << Point(bn, call.point.v) >>

\* C4 witness: a write of an unaligned timestamp into an occupied slot
\* other than slot 0 of an anchored archive
C4_Witness ==
    /\ call.op = "archive_write"
    /\ anchor_bucket_name(call.pre) # 0
    /\ archive_index(call.pre, bucket_name(call.pre, call.point.t)) # 0
    /\ bucket_name(call.pre, call.point.t) # call.point.t
    /\ archives[1] # call.pre

---------------------------------------------------------------------------
(* Claims about write_at, checked under Spec.  Archive k below is          *)
(* archives[k], i.e. index k - 1 of the source; log[k] is what the fold    *)
(* did at that index.                                                      *)

Elapsed == call.now - call.point.t

\* 0 <= elapsed < retention, with retention = seconds_per_point * points
Covers(a, e) == 0 <= e /\ e < a.seconds_per_point * a.points

\* the first archive that covers the age e, 0 when there is none
Primary(archs, e) ==
    IF \E k \in 1..Len(archs) : Covers(archs[k], e)
    THEN CHOOSE k \in 1..Len(archs) :
            /\ Covers(archs[k], e)
            /\ \A j \in 1..(k - 1) : ~Covers(archs[j], e)
    ELSE 0

\* the positions i of the window of `count` slots of s that starts at the
\* slot of `target` whose stored timestamp is target + i * s.seconds_per_point
KeptPositions(s, target, count) ==
    { i \in 0..(count - 1) :
         SlotPoint(s, (archive_index(s, target) + i) % s.points).t
            = target + i * s.seconds_per_point }

\* the points at those positions, in window order
RECURSIVE KeptWindow(_, _, _, _)
KeptWindow(s, target, count, i) ==
    IF i >= count THEN <<>>
    ELSE (IF i \in KeptPositions(s, target, count)
          THEN << SlotPoint(s, (archive_index(s, target) + i) % s.points) >>
          ELSE <<>>)
         \o KeptWindow(s, target, count, i + 1)

\* min(d.seconds_per_point / s.seconds_per_point, s.points)
WindowSize(s, d) ==
    Min(d.seconds_per_point \div s.seconds_per_point, s.points)

\* kept / candidates >= x_files_factor
RatioAdmits(kept, candidates, xff) ==
    candidates # 0 /\ kept * xff[2] >= xff[1] * candidates

\* the timestamp that propagates into archive k during the recorded call
PropagatingTs(k) ==
    IF call.log[k - 1].step = "primary" THEN call.point.t
    ELSE call.log[k - 1].timestamp

IsPropagation(k) == call.log[k].step \in {"admit", "reject"}

\* C5: write_at writes p into the first archive, finest first, with
\* 0 <= elapsed < retention, and modifies no archive before it.
C5_PrimaryArchive ==
    call.op = "write_at" =>
       LET k == Primary(call.pre, Elapsed)
           bn == call.point.t - (call.point.t % call.pre[k].seconds_per_point)
       IN k # 0 =>
            /\ archives[k] = ArchiveWrite(call.pre[k], call.point)
            /\ SlotPoint(archives[k], archive_index(archives[k], bn))
                  = Point(bn, call.point.v)
            /\ \A j \in 1..(k - 1) : archives[j] = call.pre[j]

\* C5 witness: a point too old for the finest archive, which holds data,
\* is written to the second one
C5_Witness ==
    /\ call.op = "write_at"
    /\ Primary(call.pre, Elapsed) = 2
    /\ anchor_bucket_name(call.pre[1]) # 0
    /\ archives[2] # call.pre[2]

\* C6: when no archive has 0 <= now - timestamp < retention, write_at
\* completes without an error and leaves every archive unchanged.
C6_SilentDrop ==
    (call.op = "write_at" /\ Primary(call.pre, Elapsed) = 0) =>
       /\ archives = call.pre
       /\ call.state = "Initial"

\* C6 witness: a point dated after the clock, offered to a file that holds data
C6_Witness ==
    /\ call.op = "write_at"
    /\ Elapsed < 0
    /\ anchor_bucket_name(call.pre[1]) # 0
    /\ Len(call.log) = Len(archives)

\* C7: once the propagation into archive k is rejected, no archive from k
\* on is written during the call.
C7_CascadeHalt ==
    call.op = "write_at" =>
       \A k \in 1..Len(call.log) :
          call.log[k].step = "reject" =>
             \A j \in k..Len(archives) : archives[j] = call.pre[j]

\* C7 witness: a rejection at archive k while the step from archive k into
\* archive k + 1, taken on its own, passes the admission rule
C7_Witness ==
    /\ call.op = "write_at"
    /\ \E k \in 1..(Len(archives) - 1) :
          /\ call.log[k].step = "reject"
          /\ LET s == archives[k]
                 d == archives[k + 1]
                 target == call.log[k].timestamp
                              - (call.log[k].timestamp % d.seconds_per_point)
             IN RatioAdmits(Cardinality(KeptPositions(s, target, WindowSize(s, d))),
                            WindowSize(s, d), header.x_files_factor)

\* C8: a propagation step from s into d is admitted iff
\* kept_count / candidate_count >= x_files_factor, with target_bucket =
\* ts - (ts mod d.seconds_per_point), candidate_count = min(d.seconds_per_point
\* / s.seconds_per_point, s.points) and kept_count the number of window
\* positions i whose stored timestamp is target_bucket + i * s.seconds_per_point.
C8_AdmissionRule ==
    call.op = "write_at" =>
       \A k \in 2..Len(call.log) :
          IsPropagation(k) =>
             LET e == call.log[k]
                 s == archives[e.source + 1]
                 d == call.pre[k]
                 ts == PropagatingTs(k)
                 target == ts - (ts % d.seconds_per_point)
                 count == WindowSize(s, d)
                 kept == Cardinality(KeptPositions(s, target, count))
                 admit == RatioAdmits(kept, count, header.x_files_factor)
             IN /\ (e.step = "admit") <=> admit
                /\ admit => SlotPoint(archives[k], archive_index(archives[k], target)).t
                               = target
                /\ ~admit => archives[k] = call.pre[k]

\* C8 witness: a step admitted with the ratio equal to a nonzero x-files-factor
C8_Witness ==
    /\ call.op = "write_at"
    /\ header.x_files_factor[1] # 0
    /\ \E k \in 2..Len(call.log) :
          /\ call.log[k].step = "admit"
          /\ call.log[k].candidates >= 2
          /\ Len(call.log[k].kept) * header.x_files_factor[2]
                = header.x_files_factor[1] * call.log[k].candidates

\* C9: after an admitted step into d, d's slot for target_bucket holds
\* (target_bucket, aggregate of the kept values); the source of every step
\* is the archive just before the destination, as this call left it; and the
\* next step propagates target_bucket.
C9_AdmittedWrite ==
    call.op = "write_at" =>
       \A k \in 2..Len(call.log) :
          /\ IsPropagation(k) => call.log[k].source + 1 = k - 1
          /\ call.log[k].step = "admit" =>
                LET e == call.log[k]
                    s == archives[k - 1]
                    d == archives[k]
                    ts == PropagatingTs(k)
                    target == ts - (ts % d.seconds_per_point)
                    kept == KeptWindow(s, target, WindowSize(s, d), 0)
                IN /\ SlotPoint(d, archive_index(d, target))
                        = Point(target, aggregate(header.aggregation_type, kept))
                   /\ k < Len(call.log) =>
                        /\ IsPropagation(k + 1)
                        /\ call.log[k + 1].timestamp
                              = target - (target % archives[k + 1].seconds_per_point)

\* C9 witness: an admitted step that aggregates two points of different
\* values written by two calls
C9_Witness ==
    /\ call.op = "write_at"
    /\ \E k \in 2..Len(call.log) :
          /\ call.log[k].step = "admit"
          /\ Len(call.log[k].kept) >= 2
          /\ call.log[k].kept[1].t # 0
          /\ call.log[k].kept[1].v # call.log[k].kept[2].v

\* C10: write_at(p, now) performed a second time leaves every archive as
\* the first call left it.
C10_IdempotentWrite ==
    call.op = "write_at" =>
       write_at(archives, header, call.point, call.now).archives = archives

\* C10 witness: a call that changed the primary archive and a coarser one
C10_Witness ==
    /\ call.op = "write_at"
    /\ \E k \in 2..Len(call.log) :
          /\ call.log[k].step = "admit"
          /\ archives[k] # call.pre[k]
          /\ archives[k - 1] # call.pre[k - 1]

---------------------------------------------------------------------------
(* Further claims about one archive, checked under SpecArchive *)

\* C11: while slot 0 holds the timestamp 0, archive_index is 0 for every
\* bucket name, and Archive::write puts the point in slot 0, so that the
\* point's bucket name becomes the anchor.
C11_EmptyAnchor ==
    /\ anchor_bucket_name(archives[1]) = 0 =>
          \A bn \in Timestamps : archive_index(archives[1], bn) = 0
    /\ (call.op = "archive_index" /\ anchor_bucket_name(archives[1]) = 0) =>
          call.result = 0
    /\ (call.op = "archive_write" /\ anchor_bucket_name(call.pre) = 0) =>
          LET bn == call.point.t - (call.point.t % call.pre.seconds_per_point)
          IN /\ SlotPoint(archives[1], 0) = Point(bn, call.point.v)
             /\ anchor_bucket_name(archives[1]) = bn
             /\ \A i \in 2..Len(call.pre.data) :
                   archives[1].data[i] = call.pre.data[i]

\* C11 witness: a write of a later timestamp into an archive whose slot 0
\* holds timestamp 0 while its other slots hold data
C11_Witness ==
    /\ call.op = "archive_write"
    /\ anchor_bucket_name(call.pre) = 0
    /\ call.pre.points >= 2
    /\ SlotPoint(call.pre, 1).t # 0
    /\ call.point.t >= LaterTs
    /\ anchor_bucket_name(archives[1]) # 0

\* C12: bucket_name(ts) is a multiple of seconds_per_point and
\* 0 <= ts - bucket_name(ts) < seconds_per_point; it is the timestamp
\* Archive::write stores.
C12_BucketNormalization ==
    call.op = "archive_write" =>
       LET r == call.pre.seconds_per_point
           b == bucket_name(call.pre, call.point.t)
       IN /\ b % r = 0
          /\ 0 <= call.point.t - b
          /\ call.point.t - b < r
          /\ \E i \in 0..(call.pre.points - 1) : SlotPoint(archives[1], i).t = b

\* C12 witness: a timestamp two seconds past its bucket at resolution 3
C12_Witness ==
    /\ call.op = "archive_write"
    /\ call.pre.seconds_per_point = 3
    /\ call.point.t - bucket_name(call.pre, call.point.t) = 2

---------------------------------------------------------------------------
(* File creation: WhisperFile::new lays out the header, the archive-info
   table and the archive regions.  Schema and Header::archives_start are
   taken from spec.md 4.5 and 6. *)

MaxArchives == 3

HEADER_SIZE == 16
ARCHIVE_INFO_SIZE == 12

RetentionPolicy(precision, npoints) == [precision |-> precision, points |-> npoints]

policy_size_on_disk(policy) == policy.points * POINT_SIZE

archives_start(n) == HEADER_SIZE + ARCHIVE_INFO_SIZE * n

RECURSIVE SumSizes(_, _)
SumSizes(policies, i) ==
    IF i > Len(policies) THEN 0
    ELSE policy_size_on_disk(policies[i]) + SumSizes(policies, i + 1)

schema_size_on_disk(policies) == archives_start(Len(policies)) + SumSizes(policies, 1)

\* variant of next_offset: advanced by the number of points, not of bytes
next_offset_points(archive_offset, policy) == archive_offset + policy.points

\* archive_offset = archive_offset + retention_policy.size_on_disk()
next_offset(archive_offset, policy) == archive_offset + policy_size_on_disk(policy)

\* the loop over the retention policies: one record per policy, in order
RECURSIVE ArchiveInfoLoop(_, _, _, _)
ArchiveInfoLoop(policies, i, archive_offset, table) ==
    IF i > Len(policies) THEN table
    ELSE ArchiveInfoLoop(policies, i + 1, next_offset(archive_offset, policies[i]),
            Append(table, [offset |-> archive_offset,
                           seconds_per_point |-> policies[i].precision,
                           points |-> policies[i].points]))

ArchiveInfoTable(policies) ==
    ArchiveInfoLoop(policies, 1, archives_start(Len(policies)), << >>)

\* Header::mmap_to_archives: one view per record over the zero-filled payload
mmap_to_archives(table) ==
    [k \in 1..Len(table) |->
        Archive(table[k].seconds_per_point, table[k].points,
                [i \in 1..table[k].points |-> ZeroSlot])]

new(policies) ==
    LET table == ArchiveInfoTable(policies)
    IN [size |-> schema_size_on_disk(policies),
        header |-> Header("Average", <<1, 2>>),
        archive_count |-> Len(policies),
        table |-> table,
        archives |-> mmap_to_archives(table)]

Schemas ==
    UNION { { [k \in 1..n |-> RetentionPolicy(base * (2 ^ (k - 1)), pts[k])] :
                pts \in [1..n -> 1..MaxPoints], base \in Resolutions } :
            n \in 1..MaxArchives }

InitCreate ==
    /\ \E policies \in Schemas : call = [op |-> "schema", schema |-> policies]
    /\ archives = << >>
    /\ header = Header("Average", <<1, 2>>)
    /\ ncalls = 0

CallNew ==
    /\ call.op = "schema"
    /\ LET f == new(call.schema)
       IN /\ archives' = f.archives
          /\ header' = f.header
          /\ call' = [op |-> "new_file", schema |-> call.schema, size |-> f.size,
                      archive_count |-> f.archive_count, table |-> f.table]
    /\ UNCHANGED ncalls

NextCreate == CallNew

SpecCreate == InitCreate /\ [][NextCreate]_vars

Region(info) == info.offset .. (info.offset + 12 * info.points - 1)

RECURSIVE SumRegionBytes(_, _)
SumRegionBytes(policies, i) ==
    IF i > Len(policies) THEN 0
    ELSE 12 * policies[i].points + SumRegionBytes(policies, i + 1)

\* C13: creating a file from a schema of N policies writes N archive-info
\* records with offset[0] = 16 + 12*N and offset[i+1] = offset[i] +
\* 12*points[i]; the regions are contiguous, pairwise disjoint, disjoint
\* from the header, and end exactly at the total size
\* 16 + 12*N + sum(12*points_i).
C13_FileLayout ==
    call.op = "new_file" =>
       LET n == Len(call.schema)
           t == call.table
           headerBytes == 0 .. (16 + 12 * n - 1)
       IN /\ Len(t) = n
          /\ call.archive_count = n
          /\ \A i \in 1..n : /\ t[i].points = call.schema[i].points
                             /\ t[i].seconds_per_point = call.schema[i].precision
          /\ t[1].offset = 16 + 12 * n
          /\ \A i \in 1..(n - 1) : t[i + 1].offset = t[i].offset + 12 * t[i].points
          /\ \A i \in 1..n : Region(t[i]) \cap headerBytes = {}
          /\ \A i, j \in 1..n : i # j => Region(t[i]) \cap Region(t[j]) = {}
          /\ call.size = 16 + 12 * n + SumRegionBytes(call.schema, 1)
          /\ t[n].offset + 12 * t[n].points = call.size
          /\ headerBytes \cup UNION { Region(t[i]) : i \in 1..n } = 0 .. (call.size - 1)
          /\ Len(archives) = n
          /\ \A i \in 1..n : /\ points(archives[i]) = t[i].points
                             /\ anchor_bucket_name(archives[i]) = 0

\* C13 witness: a created file with three archives of different lengths
C13_Witness ==
    /\ call.op = "new_file"
    /\ Len(call.table) = 3
    /\ call.table[1].points = 2
    /\ call.table[2].points = 3
    /\ call.table[3].points = 1
    /\ call.table[3].offset = 16 + 36 + 24 + 36

---------------------------------------------------------------------------
(* Further claims about the file, checked under Spec *)

---------------------------------------------------------------------------
(* write_at iteration by iteration: the archives are a shared mapping of
   the file, so each Archive::write of the fold is visible, and survives an
   interruption, as soon as its iteration has run *)

WriteAccumulator(archs, point) ==
    [state |-> "Initial", last_index |-> 0, point |-> point,
     archives |-> archs, log |-> <<>>]

\* entry of _write: the point cloned, elapsed fixed, the fold not yet started
BeginWrite ==
    /\ call.op \in {"create", "written"}
    /\ ncalls < MaxCalls
    /\ \E t \in Timestamps : \E v \in Values(ncalls) : \E now \in Clocks(archives, t) :
          call' = [op |-> "writing", point |-> Point(t, v), now |-> now,
                   pre |-> archives, n |-> 0,
                   acc |-> WriteAccumulator(archives, Point(t, v))]
    /\ UNCHANGED <<archives, header, ncalls>>

\* one iteration of the fold's closure on the mapped file
FoldIteration ==
    /\ call.op = "writing"
    /\ call.n < Len(fold_indices(archives))
    /\ LET acc == FoldStep(call.acc, fold_indices(archives)[call.n + 1],
                           header, call.now - call.point.t)
       IN /\ archives' = acc.archives
          /\ call' = [call EXCEPT !.acc = acc, !.n = @ + 1]
    /\ UNCHANGED <<header, ncalls>>

\* the fold has visited every index: _write returns
EndWrite ==
    /\ call.op = "writing"
    /\ call.n >= Len(fold_indices(archives))
    /\ call' = [call EXCEPT !.op = "written"]
    /\ ncalls' = ncalls + 1
    /\ UNCHANGED <<archives, header>>

NextSteps == BeginWrite \/ FoldIteration \/ EndWrite

SpecSteps == Init /\ [][NextSteps]_vars

\* the indices (counted from 0) of the archives a log says were written,
\* and the order in which it says so
IsWriteEntry(e) == e.step \in {"primary", "admit"}

WrittenIndices(log) == { log[n].index : n \in { m \in 1..Len(log) : IsWriteEntry(log[m]) } }

\* C15: during one write_at the archive writes happen in strictly
\* ascending index order and start at the primary archive k; whenever the
\* call is interrupted between two iterations, the archives written so far
\* are a contiguous run k..j that is a prefix of what the completed call
\* writes, each with its final content, and every other archive is as it
\* was before the call.
C15_AscendingPrefix ==
    call.op \in {"writing", "written"} =>
       LET full == write_at(call.pre, header, call.point, call.now)
           all == WrittenIndices(full.log)
           done == WrittenIndices(call.acc.log)
           k == Primary(call.pre, call.now - call.point.t) - 1
           log == call.acc.log
       IN /\ \A a, b \in 1..Len(log) :
                (a < b /\ IsWriteEntry(log[a]) /\ IsWriteEntry(log[b]))
                   => log[a].index < log[b].index
          /\ done # {} => \E j \in k..(Len(archives) - 1) : done = k..j
          /\ all # {} => \E m \in k..(Len(archives) - 1) : all = k..m
          /\ done = { i \in all : i < call.n }
          /\ \A i \in 0..(Len(archives) - 1) :
                archives[i + 1] = IF i \in done THEN full.archives[i + 1]
                                  ELSE call.pre[i + 1]
          /\ call.op = "written" => archives = full.archives

\* C15 witness: a call interrupted after its first two writes with a third
\* one to come, on a file that already holds data
C15_Witness ==
    /\ call.op = "writing"
    /\ Len(archives) = 3
    /\ call.n = 2
    /\ WrittenIndices(call.acc.log) = {0, 1}
    /\ WrittenIndices(write_at(call.pre, header, call.point, call.now).log) = {0, 1, 2}
    /\ archives[1] # call.pre[1]
    /\ archives[2] # call.pre[2]
    /\ anchor_bucket_name(call.pre[3]) # 0

\* the slot of archive k that the recorded call's timestamp is addressed to
PrimarySlot(k) ==
    LET a == archives[k]
    IN SlotPoint(a, archive_index(a, bucket_name(a, call.point.t)))

\* C16 as stated: the primary archive's slot for ts holds the timestamp ts
\* itself and the value v, for every resolution and every ts.
C16_VerbatimPrimary ==
    (call.op = "write_at" /\ Primary(call.pre, Elapsed) # 0) =>
       PrimarySlot(Primary(call.pre, Elapsed)) = call.point

\* C16 amended: the primary archive's slot for ts holds the value v and the
\* timestamp ts - (ts mod seconds_per_point); that is ts itself exactly
\* when ts is a multiple of the primary archive's seconds_per_point.
C16_NormalizedPrimary ==
    (call.op = "write_at" /\ Primary(call.pre, Elapsed) # 0) =>
       LET k == Primary(call.pre, Elapsed)
           r == call.pre[k].seconds_per_point
           ts == call.point.t
       IN /\ PrimarySlot(k) = Point(ts - (ts % r), call.point.v)
          /\ (PrimarySlot(k).t = ts) <=> (ts % r = 0)

\* C16 witness: a point whose timestamp is not a multiple of the primary
\* archive's resolution
C16_Witness ==
    /\ call.op = "write_at"
    /\ Primary(call.pre, Elapsed) # 0
    /\ call.point.t % call.pre[Primary(call.pre, Elapsed)].seconds_per_point # 0
    /\ PrimarySlot(Primary(call.pre, Elapsed)).t # call.point.t

---------------------------------------------------------------------------
(* Further claims about the iterations of write_at, checked under SpecSteps *)

\* the last entry of the log of the call in progress
LastEntry(c) == c.acc.log[Len(c.acc.log)]

\* the point the iteration recorded by entry e handed to Archive::write
WrittenPoint(c, e) == IF e.step = "primary" THEN c.point ELSE e.point

\* archive b differs from archive a in at most slot `slot` (counted from 0)
SameButSlot(a, b, slot) ==
    /\ b.seconds_per_point = a.seconds_per_point
    /\ b.points = a.points
    /\ Len(b.data) = Len(a.data)
    /\ \A s \in 0..(Len(a.data) - 1) : s # slot => b.data[s + 1] = a.data[s + 1]

\* what C17 requires of one step
WriteFrame ==
    IF call.op = "writing" /\ call'.op = "writing" /\ IsWriteEntry(LastEntry(call'))
    THEN LET e == LastEntry(call')
             a == archives[e.index + 1]
             p == WrittenPoint(call', e)
             slot == archive_index(a, bucket_name(a, p.t))
         IN \A j \in 1..Len(archives) :
               IF j = e.index + 1
               THEN SameButSlot(a, archives'[j], slot)
               ELSE archives'[j] = archives[j]
    ELSE archives' = archives

\* C17: Archive::write(p) changes only the slot at
\* archive_index(bucket_name(p.timestamp)) of its archive; every other slot
\* of that archive and every slot of every other archive stays as it was,
\* and no step other than an Archive::write changes any slot.
C17_WriteFrame == [][WriteFrame]_vars

\* C17 witness: a write into an archive that holds another point, in a file
\* whose other archives hold points too
C17_Witness ==
    /\ call.op = "writing"
    /\ call.n >= 1
    /\ IsWriteEntry(LastEntry(call))
    /\ LET e == LastEntry(call)
           a == archives[e.index + 1]
           slot == archive_index(a, bucket_name(a, WrittenPoint(call, e).t))
       IN /\ a # call.pre[e.index + 1]
          /\ \E s \in 0..(a.points - 1) : s # slot /\ SlotPoint(a, s).t # 0
          /\ \E j \in 1..Len(archives) :
                j # e.index + 1 /\ anchor_bucket_name(archives[j]) # 0

---------------------------------------------------------------------------
(* Further claims about whole write_at calls, checked under Spec *)

\* candidate_count > 0 at every step from the primary archive k on
WindowsNonEmpty(archs, k) ==
    \A j \in k..(Len(archs) - 1) : WindowSize(archs[j], archs[j + 1]) > 0

\* C18: with x_files_factor == 0 and candidate_count > 0 at every step no
\* propagation step is rejected, also when no point is kept: a write_at
\* that finds a primary archive k writes every archive k, k+1, ..., N-1.
C18_ZeroFactorAdmitsAll ==
    (/\ call.op = "write_at"
     /\ header.x_files_factor[1] = 0
     /\ Primary(call.pre, Elapsed) # 0
     /\ WindowsNonEmpty(call.pre, Primary(call.pre, Elapsed))) =>
       LET k == Primary(call.pre, Elapsed)
           n == Len(archives)
       IN /\ call.state = "Aggregate"
          /\ \A j \in 1..Len(call.log) : call.log[j].step # "reject"
          /\ WrittenIndices(call.log) = (k - 1)..(n - 1)
          /\ \A j \in (k + 1)..n :
                /\ call.log[j].step = "admit"
                /\ call.log[j].source = j - 2
                /\ LET a == archives[j]
                       bn == bucket_name(a, call.log[j].timestamp)
                   IN SlotPoint(a, archive_index(a, bn)) = call.log[j].point

\* C18 witness: a step admitted with no kept point at all
C18_Witness ==
    /\ call.op = "write_at"
    /\ header.x_files_factor[1] = 0
    /\ \E j \in 1..Len(call.log) :
          /\ call.log[j].step = "admit"
          /\ call.log[j].candidates > 0
          /\ Len(call.log[j].kept) = 0
          /\ archives[j] # call.pre[j]

\* C19: in every state reached from a zero-filled file by write_at calls,
\* the timestamp stored in every slot of every archive is a multiple of
\* that archive's seconds_per_point.
C19_StoredBucketsAligned ==
    \A k \in 1..Len(archives) :
       \A i \in 0..(archives[k].points - 1) :
          SlotPoint(archives[k], i).t % archives[k].seconds_per_point = 0

\* C19 witness: a call with a timestamp that is a multiple of no coarser
\* resolution of the file has stored a nonzero timestamp in every archive
C19_Witness ==
    /\ call.op = "write_at"
    /\ Len(archives) = 3
    /\ \A k \in 2..Len(archives) :
          /\ call.point.t % archives[k].seconds_per_point # 0
          /\ archives[k] # call.pre[k]
          /\ \E i \in 0..(archives[k].points - 1) :
                /\ SlotPoint(archives[k], i).t # 0
                /\ SlotPoint(archives[k], i).t # SlotPoint(call.pre[k], i).t

---------------------------------------------------------------------------
(* Longer histories of one file: the ring of an archive over three calls *)

MaxRingCalls == 3

WriteAtRing == WriteAtWithin(MaxRingCalls)

NextRing == WriteAtRing

SpecRing == Init /\ [][NextRing]_vars

\* C20: in every state reached from a zero-filled file by write_at calls,
\* every slot i whose stored timestamp T is not 0 satisfies
\* archive_index(T) = i under the archive's current anchor, and so no two
\* slots of one archive hold the same nonzero timestamp.
C20_RingAddressing ==
    \A k \in 1..Len(archives) :
       LET a == archives[k]
       IN /\ \A i \in 0..(a.points - 1) :
                SlotPoint(a, i).t # 0 => archive_index(a, SlotPoint(a, i).t) = i
          /\ \A i, j \in 0..(a.points - 1) :
                (i # j /\ SlotPoint(a, i).t # 0) => SlotPoint(a, i).t # SlotPoint(a, j).t

---------------------------------------------------------------------------
(* Claims about the candidate window of a propagation step *)

\* the point the recorded call stored in the archive that log entry j - 1
\* is about, which is the source of the step of entry j
StoredInSource(j) ==
    IF call.log[j - 1].step = "primary"
    THEN LET s == call.pre[j - 1]
         IN Point(bucket_name(s, call.point.t), call.point.v)
    ELSE call.log[j - 1].point

\* C21: whenever a propagation step from s to d is admitted, the kept set
\* contains the point this same call just stored in s, for every schema,
\* those with d.seconds_per_point / s.seconds_per_point > s.points included.
C21_KeptHoldsWritten ==
    call.op = "write_at" =>
       \A j \in 2..Len(call.log) :
          call.log[j].step = "admit" =>
             \E n \in 1..Len(call.log[j].kept) :
                call.log[j].kept[n] = StoredInSource(j)

\* C22: every read_points issued by a propagation step of write_at and by
\* read_all asks for at most as many slots as the source archive holds, so
\* it never fails with RequestTooLarge (InvalidInput) and its unwrap never
\* panics.
C22_ReadsFit ==
    /\ call.op = "write_at" =>
          /\ call.state # "Panicked"
          /\ \A j \in 1..Len(call.log) :
                /\ call.log[j].step # "panic"
                /\ IsPropagation(j) =>
                      LET s == archives[call.log[j].source + 1]
                          buf == [i \in 1..call.log[j].candidates |-> DefaultPoint]
                      IN /\ call.log[j].candidates <= points(s)
                         /\ ~exceeds(s, buf)
                         /\ read_points(s, call.log[j].timestamp, buf).ok
    /\ call.op = "read_all" =>
          /\ ~call.result.panicked
          /\ \A k \in 1..Len(archives) :
                /\ Len(call.result.lists[k]) <= points(archives[k])
                /\ read_points(archives[k], read_all_from(archives[k]),
                               [i \in 1..points(archives[k]) |-> DefaultPoint]).ok

\* C22 witness: a propagation read whose window was cut to the length of
\* the source archive and wraps around its end
C22_Witness ==
    /\ call.op = "write_at"
    /\ \E j \in 1..Len(call.log) :
          /\ IsPropagation(j)
          /\ LET s == archives[call.log[j].source + 1]
                 d == archives[j]
             IN /\ d.seconds_per_point \div s.seconds_per_point > points(s)
                /\ call.log[j].candidates = points(s)
                /\ archive_index(s, call.log[j].timestamp) # 0

---------------------------------------------------------------------------
(* Addressing a timestamp that is not a bucket name, checked under SpecArchive *)

\* C23: for an archive with a nonzero anchor (here: one that is a multiple
\* of the resolution, as every stored bucket name is) and every timestamp
\* t, aligned or not, before or after the anchor,
\* archive_index(BucketName(t)) = archive_index(bucket_name(t)).
C23_UnalignedAddressing ==
    (/\ call.op = "archive_index"
     /\ anchor_bucket_name(archives[1]) # 0
     /\ anchor_bucket_name(archives[1]) % archives[1].seconds_per_point = 0) =>
       call.result = archive_index(archives[1], bucket_name(archives[1], call.bn))

---------------------------------------------------------------------------
(* Two write_at calls through separate handles on one mapped region.  Each
   handle runs the fold of _write on its own; the handles share only the
   bytes of the archives.  A step of a handle is one read of an archive
   (the anchor read of archive_index, or read_points) or one slot write. *)

Handles == {1, 2}

\* the other handle
Other(h) == 3 - h

\* the value a handle writes tells the handles apart
HandleValue(h) == <<h, 1>>

HandleState(point, now) ==
    [point |-> point, elapsed |-> now - point.t, state |-> "Initial",
     last_index |-> 0, index |-> 0, pc |-> "fold"]

\* the clock of a handle that writes a point of timestamp t: the point's
\* own second, or late enough for the finest archive not to cover it
RaceClocks(archs, t) == {t, t + retention(archs[1])}

\* two handles enter _write on the same file
RaceBegin ==
    /\ call.op = "create"
    /\ \E t \in [Handles -> Timestamps] :
       \E now \in [Handles -> UNION {RaceClocks(archives, u) : u \in Timestamps}] :
          /\ \A h \in Handles : now[h] \in RaceClocks(archives, t[h])
          /\ call' = [op |-> "race", pre |-> archives,
                      input |-> [h \in Handles |->
                                   [point |-> Point(t[h], HandleValue(h)), now |-> now[h]]],
                      h |-> [h \in Handles |->
                               HandleState(Point(t[h], HandleValue(h)), now[h])]]
    /\ UNCHANGED <<archives, header, ncalls>>

\* one call of the closure up to its first access to the file that follows
\* a decision: Initial checks the retention, Aggregate reads the candidate
\* points from the file as it is now and decides the admission
RaceFold(h) ==
    /\ call.op = "race"
    /\ call.h[h].pc = "fold"
    /\ call.h[h].index < Len(archives)
    /\ LET w == call.h[h]
           index == fold_indices(archives)[w.index + 1]
           dst == At(archives, index)
       IN call' =
            [call EXCEPT !.h[h] =
               CASE w.state = "Initial" ->
                      IF NotCovered(dst, w.elapsed)
                      THEN [w EXCEPT !.index = @ + 1]
                      ELSE [w EXCEPT !.pc = "address"]
                 [] w.state = "Aggregate" ->
                      LET last_archive == At(archives, w.last_index)
                          count == candidate_point_count(dst, last_archive)
                          timestamp == target_timestamp(dst, w.point.t)
                          read == read_points(last_archive, timestamp,
                                              [i \in 1..count |-> DefaultPoint])
                          kept == KeptPoints(read.buf, timestamp,
                                             seconds_per_point(last_archive), 1)
                      IN IF ~read.ok
                         THEN [w EXCEPT !.state = "Panicked", !.index = Len(archives)]
                         ELSE IF Admitted(Len(kept), count, header.x_files_factor)
                         THEN [w EXCEPT !.point = AggregatePoint(w.point, timestamp, header, kept),
                                        !.pc = "address"]
                         ELSE [w EXCEPT !.state = "Finished", !.index = @ + 1]
                 [] OTHER -> [w EXCEPT !.index = @ + 1]]
    /\ UNCHANGED <<archives, header, ncalls>>

\* Archive::write, first half: the bucket name and, with the anchor read
\* from the file as it is now, the slot
RaceAddress(h) ==
    /\ call.op = "race"
    /\ call.h[h].pc = "address"
    /\ LET w == call.h[h]
           index == fold_indices(archives)[w.index + 1]
           self == At(archives, index)
           bn == bucket_name(self, w.point.t)
       IN call' = [call EXCEPT !.h[h] =
                     [index |-> w.index, point |-> w.point, elapsed |-> w.elapsed,
                      state |-> w.state, last_index |-> w.last_index, pc |-> "store",
                      slot |-> archive_index(self, bn), bytes |-> write_to_slice(w.point, bn)]]
    /\ UNCHANGED <<archives, header, ncalls>>

\* Archive::write, second half: the 12 bytes of the slot are written, and
\* the closure returns Aggregate(index)
RaceStore(h) ==
    /\ call.op = "race"
    /\ call.h[h].pc = "store"
    /\ LET w == call.h[h]
           index == fold_indices(archives)[w.index + 1]
       IN /\ archives' = [archives EXCEPT ![index + 1].data[w.slot + 1] = w.bytes]
          /\ call' = [call EXCEPT !.h[h] =
                        [index |-> w.index + 1, point |-> w.point, elapsed |-> w.elapsed,
                         state |-> "Aggregate", last_index |-> index, pc |-> "fold"]]
    /\ UNCHANGED <<header, ncalls>>

\* the fold of a handle is through: _write returns
RaceReturn(h) ==
    /\ call.op = "race"
    /\ call.h[h].pc = "fold"
    /\ call.h[h].index >= Len(archives)
    /\ call' = [call EXCEPT !.h[h].pc = "done"]
    /\ ncalls' = ncalls + 1
    /\ UNCHANGED <<archives, header>>

RaceFoldAny == \E h \in Handles : RaceFold(h)
RaceAddressAny == \E h \in Handles : RaceAddress(h)
RaceStoreAny == \E h \in Handles : RaceStore(h)
RaceReturnAny == \E h \in Handles : RaceReturn(h)

NextRace == RaceBegin \/ RaceFoldAny \/ RaceAddressAny \/ RaceStoreAny \/ RaceReturnAny

SpecRace == Init /\ [][NextRace]_vars

\* the file after the call of handle a and then the call of handle b, each
\* run alone, on the file the two calls started from
SerialOrder(a, b) ==
    LET first == write_at(call.pre, header, call.input[a].point, call.input[a].now)
    IN write_at(first.archives, header, call.input[b].point, call.input[b].now).archives

RaceOver == call.op = "race" /\ \A h \in Handles : call.h[h].pc = "done"

\* C24: when two write_at calls through separate handles interleave at the
\* granularity of archive reads and slot writes, the final contents of all
\* archives are those of one of the two serial orders.
C24_SerialEquivalence ==
    RaceOver => (archives = SerialOrder(1, 2) \/ archives = SerialOrder(2, 1))

====
